---- MODULE Spec2Model ----
(***************************************************************************)
(* Model of the college-metrics pipeline: main() builds a FeatureEngineer  *)
(* on datasets/dataset.csv, derives and rounds four columns, saves         *)
(* datasets/engineered_data.csv, then builds a CollegeVisualizer on that   *)
(* file, renders eleven charts and saves a cleaned copy.                   *)
(*                                                                         *)
(* Numbers are exact rationals [k |-> "num", n, d] in lowest terms, so a   *)
(* decimal literal of the input is a fixed-point value; nan and inf are    *)
(* the two float specials pandas produces here.  Text values carry their   *)
(* digits in n.                                                            *)
(*                                                                         *)
(* The two older scripts, feature_engineering.py and visualization.py, are *)
(* separate programs that main() never imports; they are not part of this  *)
(* state machine.                                                          *)
(***************************************************************************)
EXTENDS Integers, Sequences, FiniteSets, TLC

VARIABLES
    dataset,        \* contents of datasets/dataset.csv (never written)
    figuresDir,     \* does the directory figures/ exist
    engineeredFile, \* contents of datasets/engineered_data.csv
    cleanedFile,    \* contents of datasets/college_data_cleaned.csv
    pc,             \* position of main()
    step,           \* index of the next call inside engineer_all_features / create_all_visualizations
    edf,            \* engineer.df
    vdf,            \* visualizer.df
    charts,         \* image files written under figures/, in order
    err,            \* the exception that ended main(), or "none"
    log             \* calls and file accesses performed so far, in order

vars == <<dataset, figuresDir, engineeredFile, cleanedFile, pc, step, edf, vdf, charts, err, log>>

\* Largest number of data rows of the input file.
MaxRows == 2

----------------------------------------------------------------------------
\* Values

Abs(x) == IF x < 0 THEN -x ELSE x

RECURSIVE Gcd(_, _)
Gcd(a, b) == IF b = 0 THEN a ELSE Gcd(b, a % b)

\* The rational n/d (d # 0) in lowest terms with a positive denominator.
Q(n, d) ==
    LET g == Gcd(Abs(n), Abs(d))
        s == IF d < 0 THEN -1 ELSE 1
    IN  [k |-> "num", n |-> (s * n) \div g, d |-> (s * d) \div g]

NaN == [k |-> "nan", n |-> 0, d |-> 1]
Inf(sign) == [k |-> "inf", n |-> sign, d |-> 1]
Str(kind, n) == [k |-> kind, n |-> n, d |-> 1]

IsNum(v) == v.k = "num"

RECURSIVE Pow10(_)
Pow10(e) == IF e = 0 THEN 1 ELSE 10 * Pow10(e - 1)

\* n/d (d > 0) rounded to the nearest integer, ties to the even one.
HalfEven(n, d) ==
    LET q == n \div d
        r == n % d
    IN  IF 2 * r < d THEN q
        ELSE IF 2 * r > d THEN q + 1
        ELSE IF q % 2 = 0 THEN q ELSE q + 1

\* float arithmetic of two cells of numeric columns
Add(a, b) ==
    IF a.k = "nan" \/ b.k = "nan" THEN NaN
    ELSE IF a.k = "inf" THEN a
    ELSE IF b.k = "inf" THEN b
    ELSE Q(a.n * b.d + b.n * a.d, a.d * b.d)

Neg(a) == IF a.k = "nan" THEN NaN ELSE IF a.k = "inf" THEN Inf(-a.n) ELSE Q(-a.n, a.d)

Sub(a, b) == Add(a, Neg(b))

Half(a) == IF IsNum(a) THEN Q(a.n, 2 * a.d) ELSE a

\* 1 / a; numpy gives inf for a zero divisor and 0 for an infinite one
Recip(a) ==
    IF a.k = "nan" THEN NaN
    ELSE IF a.k = "inf" THEN Q(0, 1)
    ELSE IF a.n = 0 THEN Inf(1)
    ELSE Q(a.d, a.n)

Sign(x) == IF x > 0 THEN 1 ELSE IF x < 0 THEN -1 ELSE 0

Mul(a, b) ==
    IF a.k = "nan" \/ b.k = "nan" THEN NaN
    ELSE IF a.k = "inf" \/ b.k = "inf"
         THEN IF Sign(a.n) * Sign(b.n) = 0 THEN NaN ELSE Inf(Sign(a.n) * Sign(b.n))
    ELSE Q(a.n * b.n, a.d * b.d)

\* Series.round(decimals) on one float: rint(x * 10^decimals) / 10^decimals
Round(a, decimals) ==
    IF IsNum(a) THEN Q(HalfEven(a.n * Pow10(decimals), a.d), Pow10(decimals)) ELSE a

----------------------------------------------------------------------------
\* Tables: [cols: sequence of column names, dtype: name -> dtype, rows: sequence of name -> value]

Derived == <<"avg_graduation_rate", "graduation_rate_improvement", "selectivity_score", "cohort_size">>

Range(s) == {s[i] : i \in 1..Len(s)}

HasCol(t, c) == c \in Range(t.cols)

NoTable == [cols |-> <<>>, dtype |-> <<>>, rows |-> <<>>]

\* df[c] = series: c keeps its position when present and is appended when not
SetColumn(t, c, dt, series) ==
    [cols  |-> IF HasCol(t, c) THEN t.cols ELSE Append(t.cols, c),
     dtype |-> [x \in Range(t.cols) \cup {c} |-> IF x = c THEN dt ELSE t.dtype[x]],
     rows  |-> [i \in 1..Len(t.rows) |->
                  [x \in Range(t.cols) \cup {c} |-> IF x = c THEN series[i] ELSE t.rows[i][x]]]]

----------------------------------------------------------------------------
\* CSV files: [cols, rows] whose cells are the text of the fields:
\*   "int" digits, "dec" a decimal literal, "empty", "inf", "quoted" digits with
\*   thousands separators (a quoted field), "text" any other text.

Absent == [cols |-> <<>>, rows |-> <<>>]

CellInt(n) == [k |-> "int", n |-> n, d |-> 1]
CellDec(n, d) == [k |-> "dec", n |-> Q(n, d).n, d |-> Q(n, d).d]
CellEmpty == [k |-> "empty", n |-> 0, d |-> 1]
CellInf(sign) == [k |-> "inf", n |-> sign, d |-> 1]
CellQuoted(n) == [k |-> "quoted", n |-> n, d |-> 1]
CellText(n) == [k |-> "text", n |-> n, d |-> 1]

\* the dtype pandas.read_csv infers for a column from its fields
InferDtype(cells) ==
    IF \A i \in DOMAIN cells : cells[i].k = "int" THEN "int64"
    ELSE IF \A i \in DOMAIN cells : cells[i].k \in {"int", "dec", "empty", "inf"} THEN "float64"
    ELSE "object"

\* the value pandas.read_csv gives a field of a column of dtype dt
ParseCell(c, dt) ==
    IF c.k = "empty" THEN NaN
    ELSE IF dt = "object"
         THEN CASE c.k = "int" -> Str("digits", c.n)
                [] c.k = "dec" -> [k |-> "dectext", n |-> c.n, d |-> c.d]
                [] c.k = "inf" -> Str("inftext", c.n)
                [] c.k = "quoted" -> Str("sep", c.n)
                [] OTHER -> Str("name", c.n)
    ELSE IF c.k = "inf" THEN Inf(c.n)
    ELSE Q(c.n, c.d)

\* pd.read_csv(path)
ReadCsv(file) ==
    LET names == Range(file.cols)
        dt == [c \in names |-> InferDtype([i \in 1..Len(file.rows) |-> file.rows[i][c]])]
    IN  [cols  |-> file.cols,
         dtype |-> dt,
         rows  |-> [i \in 1..Len(file.rows) |->
                      [c \in names |-> ParseCell(file.rows[i][c], dt[c])]]]

\* the field DataFrame.to_csv writes for a value of a column of dtype dt
FormatCell(v, dt) ==
    CASE v.k = "nan" -> CellEmpty
      [] v.k = "inf" -> CellInf(v.n)
      [] v.k = "num" -> IF dt = "int64" THEN CellInt(v.n) ELSE CellDec(v.n, v.d)
      [] v.k = "digits" -> CellInt(v.n)
      [] v.k = "dectext" -> CellDec(v.n, v.d)
      [] v.k = "inftext" -> CellInf(v.n)
      [] v.k = "sep" -> CellQuoted(v.n)
      [] OTHER -> CellText(v.n)

\* df.to_csv(path, index=False): header and every row, in the frame's order
ToCsv(t) ==
    [cols |-> t.cols,
     rows |-> [i \in 1..Len(t.rows) |->
                 [c \in Range(t.cols) |-> FormatCell(t.rows[i][c], t.dtype[c])]]]

----------------------------------------------------------------------------
\* FeatureEngineer

Result(ok, t, e) == [ok |-> ok, df |-> t, err |-> e]

Numeric(dt) == dt \in {"int64", "float64"}

\* dtype of an elementwise +, -, * of two numeric columns
Common(dta, dtb) == IF dta = "int64" /\ dtb = "int64" THEN "int64" ELSE "float64"

\* df["avg_graduation_rate"] = (df["graduate_rate_4yr"] + df["graduate_rate_6yr"]) / 2
CreateAverageGraduationRate(t) ==
    Result(TRUE,
           SetColumn(t, "avg_graduation_rate", "float64",
                     [i \in 1..Len(t.rows) |->
                        Half(Add(t.rows[i]["graduate_rate_4yr"], t.rows[i]["graduate_rate_6yr"]))]),
           "none")

\* df["graduation_rate_improvement"] = df["graduate_rate_6yr"] - df["graduate_rate_4yr"]
CreateGraduationRateImprovement(t) ==
    Result(TRUE,
           SetColumn(t, "graduation_rate_improvement",
                     Common(t.dtype["graduate_rate_6yr"], t.dtype["graduate_rate_4yr"]),
                     [i \in 1..Len(t.rows) |->
                        Sub(t.rows[i]["graduate_rate_6yr"], t.rows[i]["graduate_rate_4yr"])]),
           "none")

\* df["selectivity_score"] = 1 / df["admission_rate"]
CreateSelectivityScore(t) ==
    Result(TRUE,
           SetColumn(t, "selectivity_score", "float64",
                     [i \in 1..Len(t.rows) |-> Recip(t.rows[i]["admission_rate"])]),
           "none")

\* text * number: Python repeats a string an integer number of times and
\* raises TypeError for a float factor
Repeat(v, times) ==
    IF v.k = "nan" \/ times.k # "num" THEN NaN
    ELSE [k |-> "rep", n |-> v.n, d |-> IF times.n > 0 THEN times.n ELSE 0]

\* create_cohort_size that also stores the product back into application_volume
CreateCohortSizeInPlace(t) ==
    LET product == [i \in 1..Len(t.rows) |->
                      Mul(t.rows[i]["application_volume"], t.rows[i]["admission_rate"])]
    IN  IF Numeric(t.dtype["application_volume"]) /\ Numeric(t.dtype["admission_rate"])
        THEN Result(TRUE,
                    SetColumn(SetColumn(t, "application_volume", "float64", product),
                              "cohort_size", "float64", product),
                    "none")
        ELSE Result(FALSE, t, "TypeError")

\* df["cohort_size"] = df["application_volume"] * df["admission_rate"]
CreateCohortSize(t) ==
    LET dv == t.dtype["application_volume"]
        dr == t.dtype["admission_rate"]
    IN  IF Numeric(dv) /\ Numeric(dr)
        THEN Result(TRUE,
                    SetColumn(t, "cohort_size", Common(dv, dr),
                              [i \in 1..Len(t.rows) |->
                                 Mul(t.rows[i]["application_volume"], t.rows[i]["admission_rate"])]),
                    "none")
        ELSE IF dv = "object" /\ dr = "int64"
        THEN Result(TRUE,
                    SetColumn(t, "cohort_size", "object",
                              [i \in 1..Len(t.rows) |->
                                 Repeat(t.rows[i]["application_volume"], t.rows[i]["admission_rate"])]),
                    "none")
        ELSE Result(FALSE, t, "TypeError")

\* df[c] = df[c].round(decimals), applied to the result r of the previous statement
RoundColumn(r, c, decimals) ==
    IF ~r.ok THEN r
    ELSE IF ~HasCol(r.df, c) THEN Result(FALSE, r.df, "KeyError")
    ELSE IF ~Numeric(r.df.dtype[c]) THEN Result(FALSE, r.df, "TypeError")
    ELSE Result(TRUE,
                SetColumn(r.df, c, r.df.dtype[c],
                          [i \in 1..Len(r.df.rows) |-> Round(r.df.rows[i][c], decimals)]),
                "none")

\* round_features with selectivity_score rounded to 3 decimals instead of 2
RoundFeaturesWrongDecimals(t) ==
    RoundColumn(
        RoundColumn(
            RoundColumn(
                RoundColumn(Result(TRUE, t, "none"), "avg_graduation_rate", 3),
                "graduation_rate_improvement", 3),
            "selectivity_score", 3),
        "cohort_size", 2)

RoundFeatures(t) ==
    RoundColumn(
        RoundColumn(
            RoundColumn(
                RoundColumn(Result(TRUE, t, "none"), "avg_graduation_rate", 3),
                "graduation_rate_improvement", 3),
            "selectivity_score", 2),
        "cohort_size", 2)

\* engineer_all_features with cohort size created before the selectivity score
EngineerStepsSwapped ==
    <<"create_average_graduation_rate", "create_graduation_rate_improvement",
      "create_cohort_size", "create_selectivity_score", "round_features">>

\* engineer_all_features with the rounding called before the last derivation
EngineerStepsRoundEarly ==
    <<"create_average_graduation_rate", "create_graduation_rate_improvement",
      "create_selectivity_score", "round_features", "create_cohort_size">>

\* the calls of engineer_all_features, in order
EngineerSteps ==
    <<"create_average_graduation_rate", "create_graduation_rate_improvement",
      "create_selectivity_score", "create_cohort_size", "round_features">>

\* the method of that name called on frame t
CallMethod(name, t) ==
    CASE name = "create_average_graduation_rate" -> CreateAverageGraduationRate(t)
      [] name = "create_graduation_rate_improvement" -> CreateGraduationRateImprovement(t)
      [] name = "create_selectivity_score" -> CreateSelectivityScore(t)
      [] name = "create_cohort_size" -> CreateCohortSize(t)
      [] OTHER -> RoundFeatures(t)

\* engineer_all_features() from its i-th call on, r the result so far
RECURSIVE EngineerFrom(_, _)
EngineerFrom(r, i) ==
    IF i > Len(EngineerSteps) \/ ~r.ok THEN r
    ELSE EngineerFrom(CallMethod(EngineerSteps[i], r.df), i + 1)

EngineerAllFeatures(t) == EngineerFrom(Result(TRUE, t, "none"), 1)

\* save_engineered_data that drops the rows holding a missing value first
SaveEngineeredDataDropNa(t) ==
    ToCsv([t EXCEPT !.rows = SelectSeq(t.rows, LAMBDA row : \A c \in Range(t.cols) : row[c].k # "nan")])

\* save_engineered_data(): the file written from the frame
SaveEngineeredData(t) == ToCsv(t)

----------------------------------------------------------------------------
\* CollegeVisualizer

\* Series.astype(str) on one value of a column of dtype dt
AsStr(v, dt) ==
    CASE v.k = "nan" -> Str("nantext", 0)
      [] v.k = "inf" -> Str("inftext", v.n)
      [] v.k = "num" -> IF dt = "int64" THEN Str("digits", v.n)
                        ELSE [k |-> "dectext", n |-> v.n, d |-> v.d]
      [] OTHER -> v

\* .str.replace(",", "")
StripSeparators(v) == IF v.k = "sep" THEN Str("digits", v.n) ELSE v

\* can .astype(int) read the text as an integer
IntText(v) == v.k = "digits"

\* _preprocess_data(): application_volume as text, separators removed, then as int
PreprocessData(t) ==
    IF ~HasCol(t, "application_volume") THEN Result(FALSE, t, "KeyError")
    ELSE LET txt == [i \in 1..Len(t.rows) |->
                       StripSeparators(AsStr(t.rows[i]["application_volume"],
                                             t.dtype["application_volume"]))]
         IN  IF \E i \in 1..Len(t.rows) : ~IntText(txt[i])
             THEN Result(FALSE, t, "ValueError")
             ELSE Result(TRUE,
                         SetColumn(t, "application_volume", "int64",
                                   [i \in 1..Len(t.rows) |-> Q(txt[i].n, 1)]),
                         "none")

\* the calls of create_all_visualizations, in order
PlotSteps ==
    <<"plot_admission_vs_graduation", "plot_pairplot", "plot_correlation_heatmap",
      "plot_application_vs_admission", "plot_graduation_rates_comparison",
      "plot_admission_rate_vs_application_volume", "plot_cohort_size_vs_4yr_graduation",
      "plot_cohort_size_vs_6yr_graduation", "plot_selectivity_score_vs_6yr_graduation",
      "plot_admission_rate_vs_6yr_graduation", "plot_tuition_vs_6yr_graduation">>

\* the columns a plot method hands to seaborn / matplotlib by name
PlotColumns(name) ==
    CASE name = "plot_admission_vs_graduation" -> {"admission_rate", "graduate_rate_6yr", "colleges"}
      [] name = "plot_pairplot" -> {}
      [] name = "plot_correlation_heatmap" -> {}
      [] name = "plot_application_vs_admission" -> {"application_volume", "admission_rate", "colleges"}
      [] name = "plot_graduation_rates_comparison" -> {"colleges", "graduate_rate_4yr", "graduate_rate_6yr"}
      [] name = "plot_admission_rate_vs_application_volume" -> {"colleges", "admission_rate", "application_volume"}
      [] name = "plot_cohort_size_vs_4yr_graduation" -> {"cohort_size", "graduate_rate_4yr", "colleges"}
      [] name = "plot_cohort_size_vs_6yr_graduation" -> {"cohort_size", "graduate_rate_6yr", "colleges"}
      [] name = "plot_selectivity_score_vs_6yr_graduation" -> {"selectivity_score", "graduate_rate_6yr", "colleges"}
      [] name = "plot_admission_rate_vs_6yr_graduation" -> {"admission_rate", "graduate_rate_6yr", "colleges"}
      [] OTHER -> {"tuition_rate", "graduate_rate_6yr", "colleges"}

\* does the method call os.makedirs("figures", exist_ok=True) before plt.savefig
PlotMakesDir(name) ==
    name \notin {"plot_admission_vs_graduation", "plot_pairplot", "plot_correlation_heatmap",
                 "plot_application_vs_admission", "plot_graduation_rates_comparison"}

\* the column a plot method creates when the frame lacks it
PlotFills(t, name) ==
    IF name \in {"plot_cohort_size_vs_4yr_graduation", "plot_cohort_size_vs_6yr_graduation"}
       /\ ~HasCol(t, "cohort_size")
    THEN SetColumn(t, "cohort_size", Common(t.dtype["application_volume"], t.dtype["admission_rate"]),
                   [i \in 1..Len(t.rows) |->
                      Mul(t.rows[i]["application_volume"], t.rows[i]["admission_rate"])])
    ELSE IF name = "plot_selectivity_score_vs_6yr_graduation" /\ ~HasCol(t, "selectivity_score")
    THEN SetColumn(t, "selectivity_score", "float64",
                   [i \in 1..Len(t.rows) |-> Recip(t.rows[i]["admission_rate"])])
    ELSE t

\* the exception a plot method raises on frame t, or "none"
PlotError(t, name, dirExists) ==
    IF ~(PlotColumns(name) \subseteq Range(PlotFills(t, name).cols))
    THEN IF name \in {"plot_graduation_rates_comparison", "plot_admission_rate_vs_application_volume"}
         THEN "KeyError" ELSE "ValueError"
    ELSE IF ~dirExists /\ ~PlotMakesDir(name) THEN "FileNotFoundError"
    ELSE "none"

----------------------------------------------------------------------------
\* Input files

Base == <<"colleges", "graduate_rate_4yr", "graduate_rate_6yr", "admission_rate", "application_volume">>

\* the rate and volume fields of one input row: r4, r6, admission rate, application volume
InputRows ==
    { <<CellDec(40, 100), CellDec(60, 100), CellDec(20, 100), CellInt(1000)>>,
      <<CellDec(10, 10000), CellDec(35, 10000), CellDec(16, 100), CellInt(5)>>,
      <<CellDec(15, 10000), CellDec(30, 10000), CellInt(8), CellInt(5)>>,
      <<CellDec(50, 100), CellDec(70, 100), CellDec(125, 1000), CellInt(5)>>,
      <<CellDec(40, 100), CellDec(30, 100), CellDec(-30, 100), CellInt(12)>>,
      <<CellDec(0, 1), CellDec(60, 100), CellDec(20, 100), CellInt(1000)>>,
      <<CellDec(40, 100), CellDec(-60, 100), CellDec(20, 100), CellInt(1000)>>,
      <<CellDec(40, 100), CellDec(60, 100), CellInt(0), CellInt(1000)>>,
      <<CellEmpty, CellDec(60, 100), CellDec(20, 100), CellInt(1000)>>,
      <<CellDec(40, 100), CellDec(60, 100), CellDec(20, 100), CellEmpty>>,
      <<CellDec(40, 100), CellDec(60, 100), CellDec(20, 100), CellQuoted(1000)>>,
      <<CellDec(40, 100), CellDec(60, 100), CellInt(8), CellQuoted(1000)>> }

\* the header rows: tuition_cost or tuition_rate, and derived columns already present or not
InputHeaders ==
    { Base \o <<"tuition_cost">>,
      Base \o <<"tuition_rate">>,
      Base \o <<"tuition_rate">> \o Derived,
      <<"colleges", "cohort_size">> \o Tail(Base) \o <<"tuition_rate">> }

\* row i of a file with the given header: the college is named after its position,
\* tuition is 30000 and a derived column already present holds an old value
InputRow(header, fields, i) ==
    [c \in Range(header) |->
        CASE c = "colleges" -> CellText(i)
          [] c = "graduate_rate_4yr" -> fields[1]
          [] c = "graduate_rate_6yr" -> fields[2]
          [] c = "admission_rate" -> fields[3]
          [] c = "application_volume" -> fields[4]
          [] c \in {"tuition_cost", "tuition_rate"} -> CellInt(30000)
          [] OTHER -> CellInt(7)]

InputFiles ==
    { [cols |-> h, rows |-> [i \in 1..n |-> InputRow(h, fs[i], i)]] :
        <<h, n, fs>> \in { <<h, n, fs>> \in InputHeaders \X (1..MaxRows) \X [1..MaxRows -> InputRows] :
                            \A j \in 1..MaxRows : j > n => fs[j] = fs[1] } }

\* an engineered file left by an earlier run on another dataset
StaleFile ==
    [cols |-> Base \o <<"tuition_rate">> \o Derived,
     rows |-> <<[c \in Range(Base \o <<"tuition_rate">> \o Derived) |->
                   IF c = "colleges" THEN CellText(0) ELSE CellInt(1)]>>]

----------------------------------------------------------------------------
\* main()

Init ==
    /\ dataset \in InputFiles
    /\ figuresDir \in BOOLEAN
    /\ engineeredFile \in {Absent, StaleFile}
    /\ cleanedFile = Absent
    /\ pc = "start"
    /\ step = 1
    /\ edf = NoTable
    /\ vdf = NoTable
    /\ charts = <<>>
    /\ err = "none"
    /\ log = <<>>

\* an exception leaves main()
Raise(e) ==
    /\ pc' = "aborted"
    /\ err' = e

\* engineer = FeatureEngineer('datasets/dataset.csv')
NewFeatureEngineer ==
    /\ pc = "start"
    /\ edf' = ReadCsv(dataset)
    /\ log' = Append(log, "read dataset.csv")
    /\ pc' = "engineer"
    /\ step' = 1
    /\ UNCHANGED <<dataset, figuresDir, engineeredFile, cleanedFile, vdf, charts, err>>

\* one call of engineer_all_features
EngineerCall(name) ==
    /\ pc = "engineer"
    /\ step <= Len(EngineerSteps)
    /\ EngineerSteps[step] = name
    /\ LET r == CallMethod(name, edf)
       IN  /\ edf' = r.df
           /\ IF r.ok
              THEN /\ step' = step + 1
                   /\ pc' = IF step = Len(EngineerSteps) THEN "save" ELSE "engineer"
                   /\ err' = err
              ELSE /\ Raise(r.err)
                   /\ step' = step
    /\ log' = Append(log, name)
    /\ UNCHANGED <<dataset, figuresDir, engineeredFile, cleanedFile, vdf, charts>>

DoCreateAverageGraduationRate == EngineerCall("create_average_graduation_rate")
DoCreateGraduationRateImprovement == EngineerCall("create_graduation_rate_improvement")
DoCreateSelectivityScore == EngineerCall("create_selectivity_score")
DoCreateCohortSize == EngineerCall("create_cohort_size")
DoRoundFeatures == EngineerCall("round_features")

\* engineer.save_engineered_data()
DoSaveEngineeredData ==
    /\ pc = "save"
    /\ engineeredFile' = SaveEngineeredData(edf)
    /\ log' = Append(log, "write engineered_data.csv")
    /\ pc' = "visualizer"
    /\ UNCHANGED <<dataset, figuresDir, cleanedFile, step, edf, vdf, charts, err>>

\* the visualizer built on the raw dataset instead of the engineered one
VisualizerInputRaw == dataset

\* the file main() hands to CollegeVisualizer: "datasets/engineered_data.csv"
VisualizerInput == engineeredFile

\* visualizer = CollegeVisualizer("datasets/engineered_data.csv")
NewCollegeVisualizer ==
    /\ pc = "visualizer"
    /\ LET r == PreprocessData(ReadCsv(VisualizerInput))
       IN  /\ vdf' = r.df
           /\ IF r.ok
              THEN /\ pc' = "plot"
                   /\ err' = err
              ELSE Raise(r.err)
    /\ log' = Append(log, "read engineered_data.csv")
    /\ step' = 1
    /\ UNCHANGED <<dataset, figuresDir, engineeredFile, cleanedFile, edf, charts>>

\* one call of create_all_visualizations
Plot(name) ==
    /\ pc = "plot"
    /\ step <= Len(PlotSteps)
    /\ PlotSteps[step] = name
    /\ vdf' = PlotFills(vdf, name)
    /\ log' = Append(log, name)
    /\ LET e == PlotError(vdf, name, figuresDir)
       IN  IF e = "none"
           THEN /\ charts' = Append(charts, name)
                /\ figuresDir' = (figuresDir \/ PlotMakesDir(name))
                /\ step' = step + 1
                /\ pc' = IF step = Len(PlotSteps) THEN "save_cleaned" ELSE "plot"
                /\ err' = err
           ELSE /\ Raise(e)
                /\ UNCHANGED <<charts, figuresDir, step>>
    /\ UNCHANGED <<dataset, engineeredFile, cleanedFile, edf>>

PlotAdmissionVsGraduation == Plot("plot_admission_vs_graduation")
PlotPairplot == Plot("plot_pairplot")
PlotCorrelationHeatmap == Plot("plot_correlation_heatmap")
PlotApplicationVsAdmission == Plot("plot_application_vs_admission")
PlotGraduationRatesComparison == Plot("plot_graduation_rates_comparison")
PlotAdmissionRateVsApplicationVolume == Plot("plot_admission_rate_vs_application_volume")
PlotCohortSizeVs4yrGraduation == Plot("plot_cohort_size_vs_4yr_graduation")
PlotCohortSizeVs6yrGraduation == Plot("plot_cohort_size_vs_6yr_graduation")
PlotSelectivityScoreVs6yrGraduation == Plot("plot_selectivity_score_vs_6yr_graduation")
PlotAdmissionRateVs6yrGraduation == Plot("plot_admission_rate_vs_6yr_graduation")
PlotTuitionVs6yrGraduation == Plot("plot_tuition_vs_6yr_graduation")

\* visualizer.save_cleaned_data()
DoSaveCleanedData ==
    /\ pc = "save_cleaned"
    /\ cleanedFile' = ToCsv(vdf)
    /\ log' = Append(log, "write college_data_cleaned.csv")
    /\ pc' = "done"
    /\ UNCHANGED <<dataset, figuresDir, engineeredFile, step, edf, vdf, charts, err>>

Next ==
    \/ NewFeatureEngineer
    \/ DoCreateAverageGraduationRate
    \/ DoCreateGraduationRateImprovement
    \/ DoCreateSelectivityScore
    \/ DoCreateCohortSize
    \/ DoRoundFeatures
    \/ DoSaveEngineeredData
    \/ NewCollegeVisualizer
    \/ PlotAdmissionVsGraduation
    \/ PlotPairplot
    \/ PlotCorrelationHeatmap
    \/ PlotApplicationVsAdmission
    \/ PlotGraduationRatesComparison
    \/ PlotAdmissionRateVsApplicationVolume
    \/ PlotCohortSizeVs4yrGraduation
    \/ PlotCohortSizeVs6yrGraduation
    \/ PlotSelectivityScoreVs6yrGraduation
    \/ PlotAdmissionRateVs6yrGraduation
    \/ PlotTuitionVs6yrGraduation
    \/ DoSaveCleanedData

Spec == Init /\ [][Next]_vars

----------------------------------------------------------------------------
\* Properties

Rates == {"graduate_rate_4yr", "graduate_rate_6yr", "admission_rate"}

Rows(f) == 1..Len(f.rows)

\* the engineered file was written in this run
Saved == "write engineered_data.csv" \in Range(log)

\* engineer_all_features has returned
EngineerDone == pc = "save" \/ Saved

\* the field is a number
NumberCell(c) == c.k \in {"int", "dec"}

\* some rate field of some row of the input is a number <= 0
NonPositiveRate == \E i \in Rows(dataset), c \in Rates : NumberCell(dataset.rows[i][c]) /\ dataset.rows[i][c].n <= 0

\* every rate field of every row of the input is a number > 0
PositiveRates == \A i \in Rows(dataset), c \in Rates : NumberCell(dataset.rows[i][c]) /\ dataset.rows[i][c].n > 0

\* an input the data model allows: positive rates and a plain integer volume in every row
ValidInput ==
    /\ PositiveRates
    /\ \A i \in Rows(dataset) : dataset.rows[i]["application_volume"].k = "int"

\* C1: an input with a rate <= 0 in any of the three rate columns of any row
\* never reaches the save step and its engineered file is never written.
C1_NonPositiveNeverSaved ==
    NonPositiveRate => pc # "save" /\ ~Saved

\* C2: the save step is never reached with a missing value in the frame, and
\* a file written by the run has no empty field.
C2_NoMissingSaved ==
    /\ pc = "save" => \A i \in Rows(edf), c \in Range(edf.cols) : edf.rows[i][c].k # "nan"
    /\ Saved => \A i \in Rows(engineeredFile), c \in Range(engineeredFile.cols) :
                   engineeredFile.rows[i][c].k # "empty"

\* a decimal field with at most four decimals, in units of 1/10000
Scaled(c) == (c.n * 10000) \div c.d

\* the four derived values the formulas of the data model give for input row
\* i, in integer arithmetic on the scaled fields
ExpectedAvg(i) ==
    Q(HalfEven(Scaled(dataset.rows[i]["graduate_rate_4yr"]) + Scaled(dataset.rows[i]["graduate_rate_6yr"]), 20), 1000)

ExpectedImprovement(i) ==
    Q(HalfEven(Scaled(dataset.rows[i]["graduate_rate_6yr"]) - Scaled(dataset.rows[i]["graduate_rate_4yr"]), 10), 1000)

ExpectedSelectivity(i) ==
    Q(HalfEven(1000000, Scaled(dataset.rows[i]["admission_rate"])), 100)

ExpectedCohort(i) ==
    IF dataset.rows[i]["application_volume"].k = "empty" THEN NaN
    ELSE Q(HalfEven(dataset.rows[i]["application_volume"].n * Scaled(dataset.rows[i]["admission_rate"]), 100), 100)

\* input row i is (0.40, 0.60, 0.20, 1000)
ConcreteRow(i) ==
    /\ dataset.rows[i]["graduate_rate_4yr"] = CellDec(40, 100)
    /\ dataset.rows[i]["graduate_rate_6yr"] = CellDec(60, 100)
    /\ dataset.rows[i]["admission_rate"] = CellDec(20, 100)
    /\ dataset.rows[i]["application_volume"] = CellInt(1000)

\* C3: once engineer_all_features has returned on an input whose rates are all
\* positive, every row holds the four derived values computed from its own
\* base fields and rounded to 3, 3, 2 and 2 decimals; the row
\* (0.40, 0.60, 0.20, 1000) holds 0.5, 0.2, 5 and 200.
C3_DerivedValues ==
    (EngineerDone /\ PositiveRates) =>
        /\ Len(edf.rows) = Len(dataset.rows)
        /\ Range(Derived) \subseteq Range(edf.cols)
        /\ \A i \in Rows(dataset) :
              /\ edf.rows[i]["avg_graduation_rate"] = ExpectedAvg(i)
              /\ edf.rows[i]["graduation_rate_improvement"] = ExpectedImprovement(i)
              /\ edf.rows[i]["selectivity_score"] = ExpectedSelectivity(i)
              /\ edf.rows[i]["cohort_size"] = ExpectedCohort(i)
              /\ ConcreteRow(i) =>
                    /\ edf.rows[i]["avg_graduation_rate"] = [k |-> "num", n |-> 1, d |-> 2]
                    /\ edf.rows[i]["graduation_rate_improvement"] = [k |-> "num", n |-> 1, d |-> 5]
                    /\ edf.rows[i]["selectivity_score"] = [k |-> "num", n |-> 5, d |-> 1]
                    /\ edf.rows[i]["cohort_size"] = [k |-> "num", n |-> 200, d |-> 1]

\* the engineer has returned on a two-row input with positive rates that holds
\* the row (0.40, 0.60, 0.20, 1000) and a row whose improvement 0.0025 and
\* average 0.00225 fall between two thousandths
C3_Witness ==
    /\ EngineerDone /\ PositiveRates
    /\ Len(dataset.rows) = 2
    /\ ConcreteRow(1)
    /\ dataset.rows[2]["graduate_rate_4yr"] = CellDec(10, 10000)
    /\ dataset.rows[2]["graduate_rate_6yr"] = CellDec(35, 10000)
    /\ edf.rows[2]["graduation_rate_improvement"] = [k |-> "num", n |-> 1, d |-> 500]

\* some application_volume field of the input is text with thousands separators
SeparatorInput == \E i \in Rows(dataset) : dataset.rows[i]["application_volume"].k = "quoted"

\* C4: with an application_volume written with thousands separators the
\* engineer does not fail, and cohort_size of every row is the integer value
\* times the admission rate, rounded to 2 decimals.
C4_SeparatorsStripped ==
    (SeparatorInput /\ PositiveRates) =>
        /\ ~(pc = "aborted" /\ ~Saved)
        /\ EngineerDone => \A i \in Rows(dataset) : edf.rows[i]["cohort_size"] = ExpectedCohort(i)

\* the derived values of row i of a frame
DerivedOf(t, i) == [j \in 1..Len(Derived) |-> t.rows[i][Derived[j]]]

\* C5: running engineer_all_features again on the frame it produced, or on the
\* file saved from it, succeeds and gives every row the derived values it had.
C5_Idempotent ==
    /\ EngineerDone =>
          LET again == EngineerAllFeatures(edf)
          IN  /\ again.ok
              /\ Len(again.df.rows) = Len(edf.rows)
              /\ \A i \in Rows(edf) : DerivedOf(again.df, i) = DerivedOf(edf, i)
    /\ Saved =>
          LET again == EngineerAllFeatures(ReadCsv(engineeredFile))
          IN  /\ again.ok
              /\ Len(again.df.rows) = Len(edf.rows)
              /\ \A i \in Rows(edf) : DerivedOf(again.df, i) = DerivedOf(edf, i)

\* the engineered file of an input whose rounding changed a value has been written
C5_Witness ==
    /\ Saved /\ ValidInput
    /\ \E i \in Rows(dataset) :
          /\ dataset.rows[i]["admission_rate"] = CellInt(8)
          /\ edf.rows[i]["selectivity_score"] = [k |-> "num", n |-> 3, d |-> 25]

\* the frame read from a file holding only row i of the input
SingleRow(i) == ReadCsv([cols |-> dataset.cols, rows |-> <<dataset.rows[i]>>])

\* C6: from the load on, the frame has the input's rows in the input's order;
\* the saved file has as many rows as the input, its i-th row keeps the
\* input fields of the i-th input row and holds the derived values of that row.
C6_RowsPreserved ==
    /\ pc # "start" =>
          /\ Len(edf.rows) = Len(dataset.rows)
          /\ \A i \in Rows(dataset) : edf.rows[i]["colleges"] = Str("name", i)
    /\ Saved =>
          LET out == ReadCsv(engineeredFile)
              inp == ReadCsv(dataset)
          IN  /\ Len(engineeredFile.rows) = Len(dataset.rows)
              /\ \A i \in Rows(dataset) :
                    /\ \A c \in Range(dataset.cols) \ Range(Derived) : out.rows[i][c] = inp.rows[i][c]
                    /\ DerivedOf(out, i) = DerivedOf(EngineerAllFeatures(SingleRow(i)).df, 1)

\* a file of two different rows has been saved from a valid input
C6_Witness ==
    /\ Saved /\ ValidInput
    /\ Len(engineeredFile.rows) = 2
    /\ engineeredFile.rows[1]["colleges"] = CellText(1)
    /\ engineeredFile.rows[2]["colleges"] = CellText(2)
    /\ engineeredFile.rows[1]["selectivity_score"] # engineeredFile.rows[2]["selectivity_score"]

\* the elements of s that are not in set, in order
RECURSIVE Without(_, _)
Without(s, set) ==
    IF s = <<>> THEN <<>>
    ELSE IF Head(s) \in set THEN Without(Tail(s), set)
    ELSE <<Head(s)>> \o Without(Tail(s), set)

\* C7 as stated: the saved header is the input's columns other than the derived
\* ones, in order, followed by the four derived columns in the listed order
\* (stated for valid inputs, which every version of the pipeline saves).
C7_Original ==
    (Saved /\ ValidInput) => engineeredFile.cols = Without(dataset.cols, Range(Derived)) \o Derived

\* C7: the saved header is the input's header followed by those of the four
\* derived columns the input lacks, in the listed order; a derived column the
\* input already has keeps its place.
C7_ColumnOrder ==
    Saved => engineeredFile.cols = dataset.cols \o Without(Derived, Range(dataset.cols))

\* a file has been saved from an input that had cohort_size as its second column
C7_Witness ==
    /\ Saved /\ ValidInput
    /\ dataset.cols[2] = "cohort_size"
    /\ Len(engineeredFile.cols) = Len(dataset.cols) + 3

\* how many elements of s equal x
RECURSIVE Count(_, _)
Count(s, x) == IF s = <<>> THEN 0 ELSE (IF Head(s) = x THEN 1 ELSE 0) + Count(Tail(s), x)

\* is the number a multiple of 10^-decimals
Rounded(v, decimals) == IsNum(v) => Pow10(decimals) % v.d = 0

\* C8: round_features is called with the four derived columns created by the
\* four calls before it, never fails for a missing column, and when
\* engineer_all_features has returned its calls were the four derivations in
\* the fixed order and then one rounding, and every derived value is rounded.
C8_RoundingLast ==
    /\ pc = "engineer" => "round_features" \notin Range(log)
    /\ err # "KeyError"
    /\ (pc = "engineer" /\ step = 5) =>
          /\ Range(Derived) \subseteq Range(edf.cols)
          /\ SubSeq(log, 2, 5) = <<"create_average_graduation_rate", "create_graduation_rate_improvement",
                                   "create_selectivity_score", "create_cohort_size">>
    /\ EngineerDone =>
          /\ SubSeq(log, 2, 6) = <<"create_average_graduation_rate", "create_graduation_rate_improvement",
                                   "create_selectivity_score", "create_cohort_size", "round_features">>
          /\ Count(log, "round_features") = 1
          /\ \A i \in Rows(edf) :
                /\ Rounded(edf.rows[i]["avg_graduation_rate"], 3)
                /\ Rounded(edf.rows[i]["graduation_rate_improvement"], 3)
                /\ Rounded(edf.rows[i]["selectivity_score"], 2)
                /\ Rounded(edf.rows[i]["cohort_size"], 2)

\* the engineer has returned on an input without derived columns whose
\* unrounded selectivity 0.125 has three decimals
C8_Witness ==
    /\ pc = "save" /\ ValidInput
    /\ ~("cohort_size" \in Range(dataset.cols))
    /\ \E i \in Rows(dataset) : dataset.rows[i]["admission_rate"] = CellInt(8)

\* the visualizer has been constructed
VisualizerStarted == "read engineered_data.csv" \in Range(log)

\* position of x in s (0 when absent)
RECURSIVE IndexOf(_, _)
IndexOf(s, x) ==
    IF s = <<>> THEN 0
    ELSE IF s[Len(s)] = x THEN Len(s)
    ELSE IndexOf(SubSeq(s, 1, Len(s) - 1), x)

C9_State ==
    /\ VisualizerStarted =>
          /\ Saved
          /\ IndexOf(log, "write engineered_data.csv") < IndexOf(log, "read engineered_data.csv")
          /\ IndexOf(log, "round_features") < IndexOf(log, "write engineered_data.csv")
          /\ engineeredFile = ToCsv(edf)
          /\ Len(vdf.rows) = Len(edf.rows)
          /\ Range(edf.cols) \subseteq Range(vdf.cols)
          /\ \A i \in Rows(edf), c \in Range(edf.cols) \ {"application_volume"} :
                vdf.rows[i][c] = edf.rows[i][c]
    /\ (pc = "aborted" /\ ~Saved) =>
          /\ ~VisualizerStarted
          /\ Len(vdf.cols) = 0
          /\ charts = <<>>
    /\ Len(charts) > 0 => VisualizerStarted

C9_Step ==
    /\ VisualizerStarted => engineeredFile' = engineeredFile
    /\ (pc = "aborted" /\ ~Saved) => UNCHANGED vars
    /\ dataset' = dataset

\* C9: the visualizer is constructed only after the engineer has rounded and
\* saved, on the file saved in this run; when the engineer fails the
\* visualizer is never constructed and draws nothing; and once the visualizer
\* exists the engineered file is never written again.
C9_EngineerThenVisualizer == []C9_State /\ [][C9_Step]_vars

\* the visualizer has drawn a chart from a file that replaced an older one
C9_Witness ==
    /\ Len(charts) > 0 /\ ValidInput
    /\ VisualizerStarted
    /\ engineeredFile # StaleFile
    /\ Len(engineeredFile.rows) = 2

\* the columns the input file is required to have, with either tuition column
RequiredColumns(cols) ==
    /\ Range(Base) \subseteq Range(cols)
    /\ ("tuition_cost" \in Range(cols) \/ "tuition_rate" \in Range(cols))
    /\ Range(Derived) \subseteq Range(cols)

\* C10: on an engineered dataset with the required and the derived columns
\* (made from a valid input, the directory figures/ being there),
\* create_all_visualizations, once started, does not fail, and when it has
\* returned all eleven charts exist.
C10_AllChartsDrawn ==
    (RequiredColumns(engineeredFile.cols) /\ ValidInput /\ figuresDir /\ Len(log) > 0 /\ PlotSteps[1] \in Range(log)) =>
        /\ pc # "aborted"
        /\ pc \in {"save_cleaned", "done"} => Range(charts) = Range(PlotSteps)

====
